---------------------------- MODULE Spec2Model ----------------------------
(* Model of the relay (src/app.py, src/openai_router.py) and of its two    *)
(* front-ends, the Telegram bot (src/telegram_bot.py) and the terminal     *)
(* client (src/terminal_client.py).                                        *)
(*                                                                         *)
(* The three programs are separate processes that share no memory.  The    *)
(* variable `program` says which process a behaviour follows; a front-end  *)
(* reaches the relay only through send_to_api, whose answer is computed    *)
(* by the relay's own operators (chat_endpoint) from the request, the      *)
(* relay's configuration and the upstream provider's reply.                *)
(*                                                                         *)
(* Text is a sequence of one-character strings, so that split, strip,      *)
(* lower and startswith are computed, not assumed.                         *)
EXTENDS Integers, Sequences, FiniteSets, TLC

---------------------------------------------------------------------------
(* Bounds of the model *)

\* events of a front-end's environment in one behaviour: the updates or lines it receives
\* (texts, commands, button presses) and the turns in which the relay or the
\* upstream misbehaves (relay unreachable, error, malformed upstream reply)
MaxEvents == 3
\* the history (in completed chat turns) a front-end may start from
MaxInitTurns == 10

---------------------------------------------------------------------------
(* Program constants *)

\* "if len(...) > 20" / "[-20:]"
MAX_CONTEXT == 20

\* os.getenv("DEFAULT_MODEL", "qwen/qwen-2.5-coder-32b-instruct:free"),
\* abbreviated: an identifier with a ':' inside, as the default has
DEFAULT_MODEL == <<"q", ":", "f">>

\* Field(default="openai/gpt-3.5-turbo"), abbreviated
RELAY_DEFAULT_MODEL == <<"g">>

Users == {"u1", "u2"}
Slots == {1, 2}

\* model identifiers the upstream catalog may hold: opaque strings
ModelIds == {<<"a">>, <<"q", ":", "f">>}

\* the n-th text a user types: 't' followed by one character naming n
Digit == <<"1", "2", "3", "4", "5", "6", "7", "8", "9", "A", "B", "C",
           "D", "E", "F", "G", "H", "I", "J", "K", "L", "M", "N", "O">>
UserText(n) == <<"t", Digit[n]>>
\* the content the stubbed upstream answers the request for text n with
ReplyText(n) == <<"r", Digit[n]>>

\* JSON null / Python None
None == <<"None">>
\* a dict with no keys
EmptyDict == [k \in {} |-> k]

Message(role, content) == [role |-> role, content |-> content]

\* dict assignment d[k] = v
Put(d, k, v) == [x \in (DOMAIN d) \cup {k} |-> IF x = k THEN v ELSE d[x]]

\* a variant of LastN that keeps the first n (list[:n]); C13 tells it from
\* the code
LastN_first(s, n) == IF Len(s) <= n THEN s ELSE SubSeq(s, 1, n)

\* list[-n:]
LastN(s, n) == IF Len(s) <= n THEN s ELSE SubSeq(s, Len(s) - n + 1, Len(s))

---------------------------------------------------------------------------
(* The upstream provider, as the relay sees it.                            *)
(* A reply is a network error, a non-2xx status, or a 200 with a JSON      *)
(* object; the object may lack "choices" or "model" (an error body sent    *)
(* with status 200, for one), hold an empty "choices" list, or a null      *)
(* content.                                                                *)

NetError == [kind |-> "neterr"]
\* a status the HTTP client hands on at once (401, 404, ...)
HttpError == [kind |-> "httperr"]
\* a status the openai client takes for transient (408, 409, 429, 5xx)
ServerError == [kind |-> "httperr", status |-> 503]
Ok(body) == [kind |-> "ok", body |-> body]
Choice(c) == [message |-> [content |-> c]]

FullBody(c, m) == [choices |-> <<Choice(c)>>, model |-> m]
NoModelBody(c) == [choices |-> <<Choice(c)>>]
NoChoicesBody(m) == [model |-> m]
EmptyChoicesBody(m) == [choices |-> <<>>, model |-> m]

\* the replies the stub answers in good order with
NominalReplies(c, models) == {Ok(FullBody(c, m)) : m \in models}
\* everything else it may do
FaultyReplies(c, m) ==
  {NetError, HttpError, ServerError, Ok(NoModelBody(c)), Ok(NoChoicesBody(m)),
   Ok(EmptyChoicesBody(m)), Ok(FullBody(None, m))}

---------------------------------------------------------------------------
(* The relay: src/app.py and src/openai_router.py                          *)

HTTPException(status, detail) == [status |-> status, detail |-> detail]
Raise(exc, outbound) == [raised |-> TRUE, exc |-> exc, outbound |-> outbound]
Return(value, outbound) == [raised |-> FALSE, value |-> value, outbound |-> outbound]

KEY_NOT_CONFIGURED == <<"OpenRouter API key not configured">>
\* str(e) of an exception of the HTTP client: text the relay only passes on
ETC == <<"...">>

\* msg.dict() of the pydantic Message: the two declared fields
MsgDict(m) == [role |-> m.role, content |-> m.content]
MsgDicts(msgs) == [i \in 1..Len(msgs) |-> MsgDict(msgs[i])]

\* a variant of UpstreamPayload that forwards at most the 20 most recent
\* messages; C10 tells it from the code
UpstreamPayload_capped(req) ==
  [messages |-> LastN(MsgDicts(req.messages), MAX_CONTEXT), model |-> req.model,
   max_tokens |-> req.max_tokens, temperature |-> req.temperature]

\* what goes out to https://openrouter.ai/api/v1/chat/completions
UpstreamPayload(req) ==
  [messages |-> MsgDicts(req.messages), model |-> req.model,
   max_tokens |-> req.max_tokens, temperature |-> req.temperature]

\* openai.OpenAI(base_url=..., api_key=..., default_headers=...) is made
\* without max_retries, so the client keeps its default: a request that
\* fails with a connection error or a transient status is sent again, up to
\* this many times
OPENAI_MAX_RETRIES == 2
Retried(up) == up.kind = "neterr" \/ up = ServerError

\* the calls that go out through the client when the upstream keeps
\* answering `up`
ClientCalls(call, up) ==
  IF Retried(up) THEN [i \in 1..(1 + OPENAI_MAX_RETRIES) |-> call] ELSE <<call>>

\* OpenAIRouter.chat_completion: the client's reply object turned back into
\* a dict.  A field the reply lacks reads as None on the client's object;
\* indexing None or an empty list raises, and every exception leaves as
\* Exception("Error calling OpenRouter API via OpenAI client: ...").
chat_completion(req, up) ==
  LET out == ClientCalls(UpstreamPayload(req), up)
      err == <<"Error calling OpenRouter API via OpenAI client: ">>
  IN IF up.kind # "ok" THEN Raise(err \o ETC, out)
     ELSE LET body == up.body
          IN IF "choices" \notin DOMAIN body THEN Raise(err \o ETC, out)
             ELSE IF Len(body.choices) = 0 THEN Raise(err \o ETC, out)
             ELSE IF "message" \notin DOMAIN body.choices[1]
                  THEN Raise(err \o ETC, out)
             ELSE LET message == body.choices[1].message
                      content == IF "content" \in DOMAIN message
                                 THEN message.content ELSE None
                      model == IF "model" \in DOMAIN body THEN body.model ELSE None
                  IN Return([choices |-> <<Choice(content)>>, model |-> model], out)

\* a variant of chat_with_openrouter without the check of the key: the call
\* goes out with "Bearer None"; C6 tells it from the code
chat_with_openrouter_unchecked(api_key, api_method, req, up) ==
  IF api_method = "openai"
  THEN LET r == chat_completion(req, up)
       IN IF r.raised
          THEN Raise(HTTPException(500,
                 <<"Error calling OpenRouter API via OpenAI client: ">> \o r.exc),
                 r.outbound)
          ELSE r
  ELSE LET out == <<UpstreamPayload(req)>>
       IN IF up.kind # "ok"
          THEN Raise(HTTPException(500,
                 <<"Error calling OpenRouter API: ">> \o ETC), out)
          ELSE Return(up.body, out)

\* chat_with_openrouter: the key check, then one of the two call paths
chat_with_openrouter(api_key, api_method, req, up) ==
  IF ~api_key
  THEN Raise(HTTPException(500, KEY_NOT_CONFIGURED), <<>>)
  ELSE IF api_method = "openai"
  THEN LET r == chat_completion(req, up)
       IN IF r.raised
          THEN Raise(HTTPException(500,
                 <<"Error calling OpenRouter API via OpenAI client: ">> \o r.exc),
                 r.outbound)
          ELSE r
  ELSE LET out == <<UpstreamPayload(req)>>
       IN IF up.kind # "ok"
          THEN Raise(HTTPException(500,
                 <<"Error calling OpenRouter API: ">> \o ETC), out)
          ELSE Return(up.body, out)

\* str(e) of an HTTPException
ExcStr(exc) == <<"500: ">> \o exc.detail

\* a variant of chat_endpoint that answers with the model asked for, not the
\* one the upstream reports; C11 tells it from the code
chat_endpoint_model_asked(api_key, api_method, req, up) ==
  LET r == chat_with_openrouter(api_key, api_method, req, up)
      Fail(detail) == [status |-> 500, json |-> [detail |-> detail],
                       outbound |-> r.outbound]
  IN IF r.raised THEN Fail(ExcStr(r.exc))
     ELSE LET response == r.value
              choices == IF "choices" \in DOMAIN response
                         THEN response.choices ELSE <<EmptyDict>>
          IN IF Len(choices) = 0 THEN Fail(<<"list index out of range">>)
             ELSE LET first == choices[1]
                      message == IF "message" \in DOMAIN first
                                 THEN first.message ELSE EmptyDict
                      assistant_message == IF "content" \in DOMAIN message
                                           THEN message.content ELSE <<>>
                      model_used == req.model
                  IN IF assistant_message = None \/ model_used = None
                     THEN Fail(<<"validation error for ChatResponse">>)
                     ELSE [status |-> 200,
                           json |-> [response |-> assistant_message,
                                     model |-> model_used],
                           outbound |-> r.outbound]

\* response.get("choices", [{}])[0].get("message", {}).get("content", "")
\* and response.get("model", request_data.model), then ChatResponse(...),
\* whose two fields must be strings; any exception becomes a 500
chat_endpoint(api_key, api_method, req, up) ==
  LET r == chat_with_openrouter(api_key, api_method, req, up)
      Fail(detail) == [status |-> 500, json |-> [detail |-> detail],
                       outbound |-> r.outbound]
  IN IF r.raised THEN Fail(ExcStr(r.exc))
     ELSE LET response == r.value
              choices == IF "choices" \in DOMAIN response
                         THEN response.choices ELSE <<EmptyDict>>
          IN IF Len(choices) = 0 THEN Fail(<<"list index out of range">>)
             ELSE LET first == choices[1]
                      message == IF "message" \in DOMAIN first
                                 THEN first.message ELSE EmptyDict
                      assistant_message == IF "content" \in DOMAIN message
                                           THEN message.content ELSE <<>>
                      model_used == IF "model" \in DOMAIN response
                                    THEN response.model ELSE req.model
                  IN IF assistant_message = None \/ model_used = None
                     THEN Fail(<<"validation error for ChatResponse">>)
                     ELSE [status |-> 200,
                           json |-> [response |-> assistant_message,
                                     model |-> model_used],
                           outbound |-> r.outbound]

\* the upstream model catalog: the first k of these descriptors
CATALOG_POOL ==
  <<[id |-> <<"q", ":", "f">>, name |-> <<"Q">>], [id |-> <<"a">>],
    [id |-> <<"b">>], [id |-> <<"c">>, name |-> <<"C">>], [id |-> <<"d">>],
    [id |-> <<"e">>], [name |-> <<"N">>]>>
\* the longest catalog the upstream serves
MaxCatalog == 2
Catalogs == {SubSeq(CATALOG_POOL, 1, k) : k \in 0..MaxCatalog}
CatalogReplies ==
  {NetError, HttpError, Ok(EmptyDict)} \cup {Ok([data |-> c]) : c \in Catalogs}

\* the longest catalog served when the picker is looked at on its own
MaxPickerCatalog == 5
PickerCatalogReplies ==
  {Ok([data |-> SubSeq(CATALOG_POOL, 1, k)]) : k \in 0..MaxPickerCatalog}

\* list_models of app.py, with OpenAIRouter.list_models: the key check,
\* then the catalog through the client ({"data": [...]}, an exception when
\* the reply has no data to iterate) or the upstream JSON as it came
list_models(api_key, api_method, up) ==
  LET Fail(detail, out) ==
        [status |-> 500, json |-> [detail |-> detail], outbound |-> out]
      out == <<"GET /models">>
  IN IF ~api_key THEN Fail(KEY_NOT_CONFIGURED, <<>>)
     ELSE IF api_method = "openai"
     THEN IF up.kind # "ok" \/ "data" \notin DOMAIN up.body
          THEN Fail(<<"Error fetching models via OpenAI client: ",
                      "Error fetching models via OpenAI client: ">> \o ETC,
                    ClientCalls("GET /models", up))
          ELSE [status |-> 200, json |-> [data |-> up.body.data], outbound |-> out]
     ELSE IF up.kind # "ok"
          THEN Fail(<<"Error fetching models: ">> \o ETC, out)
          ELSE [status |-> 200, json |-> up.body, outbound |-> out]

\* the ChatRequest the relay parses out of a posted JSON body: the declared
\* fields with their defaults; undeclared keys (extra_headers) are dropped
ParseChatRequest(json) ==
  [messages |-> [i \in 1..Len(json.messages) |->
                   Message(json.messages[i].role, json.messages[i].content)],
   model |-> IF "model" \in DOMAIN json THEN json.model ELSE RELAY_DEFAULT_MODEL,
   max_tokens |-> IF "max_tokens" \in DOMAIN json THEN json.max_tokens ELSE 1000,
   temperature |-> IF "temperature" \in DOMAIN json THEN json.temperature ELSE "0.7"]

---------------------------------------------------------------------------
(* State *)

VARIABLES
  program,          \* which process this behaviour follows: bot, console, relay
  api_key,          \* relay: OPENROUTER_API_KEY is configured
  api_method,       \* relay: OPENROUTER_API_METHOD
  exchange,         \* the relay's last request, upstream reply and response
  user_contexts,    \* bot: user_id -> list of messages
  bot_data,         \* bot: context.bot_data, user_id -> {"model": id}
  handlers,         \* bot: the handle_message coroutines, one per slot
  keyboard,         \* bot: the rows of buttons of the last picker shown
  message_history,  \* console: the list of messages
  current_model,    \* console
  console,          \* console: where main() stands, and the request in flight
  events,           \* environment: events or lines received, and misbehaviours, so far
  raced,            \* history: users two of whose chat handlers have overlapped
  picked            \* history: user_id -> the model whose button was pressed last

vars == <<program, api_key, api_method, exchange, user_contexts, bot_data,
          handlers, keyboard, message_history, current_model, console,
          events, raced, picked>>

relay_config == <<api_key, api_method>>
bot_vars == <<user_contexts, bot_data, handlers, keyboard, raced, picked>>
console_vars == <<message_history, current_model, console>>

NoExchange == [endpoint |-> "none"]
Exchange(endpoint, request, up, resp) ==
  [endpoint |-> endpoint, request |-> request, up |-> up,
   status |-> resp.status, json |-> resp.json, outbound |-> resp.outbound]

---------------------------------------------------------------------------
(* What both front-ends do with the relay's answer: send_to_api            *)

\* the JSON body posted to /api/chat (the bot adds extra_headers)
ChatPayload(messages, model) ==
  [messages |-> messages, model |-> model, max_tokens |-> 1000,
   temperature |-> "0.7"]
BotChatPayload(messages, model) ==
  [messages |-> messages, model |-> model, max_tokens |-> 1000,
   temperature |-> "0.7",
   extra_headers |-> [referer |-> "APP_URL", title |-> "Personal AI Companion"]]

\* f"Ошибка соединения с API: {str(e)}" and f"Ошибка API: {error_text}"
CONNECTION_ERROR == <<"Connection error: ">>
API_ERROR == <<"API error: ">>

\* the relay is unreachable, or it answers
Unreachable == [reached |-> FALSE]
Reached(resp) == [reached |-> TRUE, resp |-> resp]

send_to_api_result(model, answer) ==
  IF ~answer.reached
  THEN [response |-> CONNECTION_ERROR, model |-> model]
  ELSE IF answer.resp.status = 200 THEN answer.resp.json
  ELSE [response |-> API_ERROR \o answer.resp.json.detail, model |-> model]

\* what the relay may answer a posted body with, over its configurations
\* and these replies of the upstream: c with the model asked for, a network
\* error, or a 200 whose body has no choices
RelayAnswers(payload, c) ==
  {Reached(chat_endpoint(key, method, ParseChatRequest(payload), up)) :
     key \in BOOLEAN, method \in {"direct", "openai"},
     up \in NominalReplies(c, {payload.model})
              \cup {NetError, Ok(NoChoicesBody(payload.model))}}

\* the answer of a turn in which nothing went wrong: the relay is reached
\* and hands on the upstream's content
Nominal(answer, c) ==
  answer.reached /\ answer.resp.status = 200 /\ answer.resp.json.response = c

\* the answers the environment may give a turn; `may_fail` when it may
\* misbehave in this one
Allowed(answer, c, may_fail) == may_fail \/ Nominal(answer, c)
TurnAnswers(payload, c, may_fail) ==
  {a \in RelayAnswers(payload, c) \cup {Unreachable} : Allowed(a, c, may_fail)}

\* a variant of AppendReply that puts the reply at the head of the buffer
\* (insert(0, ...)); C8 tells it from the code
AppendReply_front(buffer, assistant_response) ==
  LET appended == <<Message("assistant", assistant_response)>> \o buffer
  IN IF Len(appended) > MAX_CONTEXT THEN LastN(appended, MAX_CONTEXT) ELSE appended

\* a variant of AppendReply that cuts to the last 19 (list[-19:]); C21 tells
\* it from the code
AppendReply_keep_19(buffer, assistant_response) ==
  LET appended == Append(buffer, Message("assistant", assistant_response))
  IN IF Len(appended) > MAX_CONTEXT THEN LastN(appended, MAX_CONTEXT - 1)
     ELSE appended

\* append the reply, then keep the last 20
AppendReply(buffer, assistant_response) ==
  LET appended == Append(buffer, Message("assistant", assistant_response))
  IN IF Len(appended) > MAX_CONTEXT THEN LastN(appended, MAX_CONTEXT) ELSE appended

---------------------------------------------------------------------------
(* The Telegram bot: src/telegram_bot.py                                   *)
(*                                                                         *)
(* A handler runs without interruption between two awaits.  The command    *)
(* handlers change state only in one such stretch; handle_message has      *)
(* three: up to the typing indicator, the building of the request, and     *)
(* from the relay's answer on.  Handlers of several updates may be in      *)
(* flight at once, one per slot.                                           *)

\* str.split(sep) for a one-character separator: the list of the parts
RECURSIVE SplitFrom(_, _, _, _)
SplitFrom(str, sep, i, part) ==
  IF i > Len(str) THEN <<part>>
  ELSE IF str[i] = sep THEN <<part>> \o SplitFrom(str, sep, i + 1, <<>>)
  ELSE SplitFrom(str, sep, i + 1, Append(part, str[i]))
Split(str, sep) == SplitFrom(str, sep, 1, <<>>)

\* f"model:{model_id}"
CallbackData(model_id) == <<"m", "o", "d", "e", "l", ":">> \o model_id

\* the model a button with this callback data was made for
ButtonModel(data) == SubSeq(data, 7, Len(data))

\* InlineKeyboardButton(model_name, callback_data=...)
Button(model) ==
  LET model_id == IF "id" \in DOMAIN model THEN model.id ELSE <<>>
      model_name == IF "name" \in DOMAIN model THEN model.name ELSE model_id
  IN [text |-> model_name, callback_data |-> CallbackData(model_id)]

\* a variant of KeyboardLoop that starts a new row at every even index, the
\* first included (i % 2 == 0 without i > 0); C19 tells it from the code
RECURSIVE KeyboardLoop_no_guard(_, _, _, _)
KeyboardLoop_no_guard(models, i, kb, row) ==
  IF i >= Len(models) THEN IF row # <<>> THEN Append(kb, row) ELSE kb
  ELSE IF i % 2 = 0
       THEN KeyboardLoop_no_guard(models, i + 1, Append(kb, row),
                                  <<Button(models[i + 1])>>)
       ELSE KeyboardLoop_no_guard(models, i + 1, kb,
                                  Append(row, Button(models[i + 1])))

\* the loop of select_model over enumerate(models), from index i (0-based)
RECURSIVE KeyboardLoop(_, _, _, _)
KeyboardLoop(models, i, kb, row) ==
  IF i >= Len(models) THEN IF row # <<>> THEN Append(kb, row) ELSE kb
  ELSE IF i > 0 /\ i % 2 = 0
       THEN KeyboardLoop(models, i + 1, Append(kb, row), <<Button(models[i + 1])>>)
       ELSE KeyboardLoop(models, i + 1, kb, Append(row, Button(models[i + 1])))
Keyboard(models) == KeyboardLoop(models, 0, <<>>, <<>>)

Buttons(kb) == UNION {{kb[i][j] : j \in DOMAIN kb[i]} : i \in DOMAIN kb}

IdleHandler == [pc |-> "idle"]
Busy(slot) == handlers[slot].pc # "idle"

\* the number of the next text the bot receives; the texts of the history
\* the bot starts from are numbered 1..MaxInitTurns
NextText == MaxInitTurns + events + 1

\* the buffer after k chat turns of one user, each run alone and answered
\* in good order: turns MaxInitTurns-k+1 .. MaxInitTurns
RECURSIVE HistoryUpTo(_, _)
HistoryUpTo(k, j) ==
  IF j = 0 THEN <<>>
  ELSE AppendReply(Append(HistoryUpTo(k, j - 1),
                          Message("user", UserText(MaxInitTurns - k + j))),
                   ReplyText(MaxInitTurns - k + j))
History(k) == HistoryUpTo(k, k)

\* a variant of start that empties the buffers of all users
\* (user_contexts.clear() first); C20 tells it from the code
start_all(u) ==
  /\ program = "bot"
  /\ events < MaxEvents
  /\ events' = events + 1
  /\ user_contexts' = [x \in (DOMAIN user_contexts) \cup {u} |-> <<>>]
  /\ UNCHANGED <<program, relay_config, exchange, bot_data, handlers, keyboard,
                 console_vars, raced, picked>>

\* start: user_contexts[user_id] = []
start(u) ==
  /\ program = "bot"
  /\ events < MaxEvents
  /\ events' = events + 1
  /\ user_contexts' = Put(user_contexts, u, <<>>)
  /\ UNCHANGED <<program, relay_config, exchange, bot_data, handlers, keyboard,
                 console_vars, raced, picked>>

\* a variant of clear_context that empties the list in place
\* (user_contexts[user_id].clear()), a KeyError for a user not seen before;
\* C14 tells it from the code
clear_context_in_place(u) ==
  /\ program = "bot"
  /\ events < MaxEvents
  /\ u \in DOMAIN user_contexts
  /\ events' = events + 1
  /\ user_contexts' = Put(user_contexts, u, <<>>)
  /\ UNCHANGED <<program, relay_config, exchange, bot_data, handlers, keyboard,
                 console_vars, raced, picked>>

\* clear_context: user_contexts[user_id] = []
clear_context(u) ==
  /\ program = "bot"
  /\ events < MaxEvents
  /\ events' = events + 1
  /\ user_contexts' = Put(user_contexts, u, <<>>)
  /\ UNCHANGED <<program, relay_config, exchange, bot_data, handlers, keyboard,
                 console_vars, raced, picked>>

\* get_available_models: data.get("data", []) of a 200, else []
get_available_models(resp) ==
  IF resp.status = 200 /\ "data" \in DOMAIN resp.json THEN resp.json.data ELSE <<>>

\* select_model: no models, no picker; else the picker with its keyboard;
\* `replies` is what the upstream may answer the relay's catalog request
select_model_from(replies) ==
  /\ program = "bot"
  /\ events < MaxEvents
  /\ events' = events + 1
  /\ \E key \in BOOLEAN, method \in {"direct", "openai"}, up \in replies :
       LET resp == list_models(key, method, up)
           models == get_available_models(resp)
       IN keyboard' = IF models = <<>> THEN keyboard ELSE Keyboard(models)
  /\ UNCHANGED <<program, relay_config, exchange, user_contexts, bot_data, handlers,
                 console_vars, raced, picked>>

select_model == select_model_from(CatalogReplies)

\* a variant of model_callback that also starts the user's buffer afresh;
\* C22 tells it from the code
model_callback_new_buffer(u, button) ==
  /\ program = "bot"
  /\ events < MaxEvents
  /\ events' = events + 1
  /\ button \in Buttons(keyboard)
  /\ LET model_id == Split(button.callback_data, ":")[2]
         entry == IF u \in DOMAIN bot_data THEN bot_data[u] ELSE EmptyDict
     IN bot_data' = Put(bot_data, u, Put(entry, "model", model_id))
  /\ picked' = Put(picked, u, ButtonModel(button.callback_data))
  /\ user_contexts' = Put(user_contexts, u, <<>>)
  /\ UNCHANGED <<program, relay_config, exchange, handlers,
                 keyboard, console_vars, raced>>

\* model_callback, for the button a user presses: query.data.split(":")[1]
\* becomes bot_data[user_id]["model"]
model_callback(u, button) ==
  /\ program = "bot"
  /\ events < MaxEvents
  /\ events' = events + 1
  /\ button \in Buttons(keyboard)
  /\ LET model_id == Split(button.callback_data, ":")[2]
         entry == IF u \in DOMAIN bot_data THEN bot_data[u] ELSE EmptyDict
     IN bot_data' = Put(bot_data, u, Put(entry, "model", model_id))
  /\ picked' = Put(picked, u, ButtonModel(button.callback_data))
  /\ UNCHANGED <<program, relay_config, exchange, user_contexts, handlers,
                 keyboard, console_vars, raced>>

\* a variant of handle_message_begin that makes a new list whether or not
\* the user has one; C15 tells it from the code
handle_message_begin_new_list(slot, u) ==
  /\ program = "bot"
  /\ ~Busy(slot)
  /\ \A other \in Slots : other < slot => Busy(other)
  /\ events < MaxEvents
  /\ LET user_message == UserText(NextText)
         buffer == <<>>
         model == IF u \in DOMAIN bot_data /\ "model" \in DOMAIN bot_data[u]
                  THEN bot_data[u].model ELSE DEFAULT_MODEL
     IN /\ user_contexts' =
             Put(user_contexts, u, Append(buffer, Message("user", user_message)))
        /\ handlers' = [handlers EXCEPT ![slot] =
             [pc |-> "typing", user_id |-> u, n |-> NextText,
              user_message |-> user_message, model |-> model]]
  /\ events' = events + 1
  /\ raced' = IF \E other \in Slots \ {slot} :
                   Busy(other) /\ handlers[other].user_id = u
              THEN raced \cup {u} ELSE raced
  /\ UNCHANGED <<program, relay_config, exchange, bot_data, keyboard,
                 console_vars, picked>>

\* handle_message up to "await ... send_action": create the buffer on
\* first sight, read the model, append the user's message
handle_message_begin(slot, u) ==
  /\ program = "bot"
  /\ ~Busy(slot)
  /\ \A other \in Slots : other < slot => Busy(other)
  /\ events < MaxEvents
  /\ LET user_message == UserText(NextText)
         buffer == IF u \in DOMAIN user_contexts THEN user_contexts[u] ELSE <<>>
         model == IF u \in DOMAIN bot_data /\ "model" \in DOMAIN bot_data[u]
                  THEN bot_data[u].model ELSE DEFAULT_MODEL
     IN /\ user_contexts' =
             Put(user_contexts, u, Append(buffer, Message("user", user_message)))
        /\ handlers' = [handlers EXCEPT ![slot] =
             [pc |-> "typing", user_id |-> u, n |-> NextText,
              user_message |-> user_message, model |-> model]]
  /\ events' = events + 1
  /\ raced' = IF \E other \in Slots \ {slot} :
                   Busy(other) /\ handlers[other].user_id = u
              THEN raced \cup {u} ELSE raced
  /\ UNCHANGED <<program, relay_config, exchange, bot_data, keyboard,
                 console_vars, picked>>

\* handle_message from the typing indicator to the posting of the request:
\* send_to_api(user_contexts[user_id], model) builds and serialises the body
handle_message_send(slot) ==
  /\ program = "bot"
  /\ handlers[slot].pc = "typing"
  /\ LET h == handlers[slot]
     IN handlers' = [handlers EXCEPT ![slot] =
          [pc |-> "waiting", user_id |-> h.user_id, n |-> h.n,
           user_message |-> h.user_message, model |-> h.model,
           payload |-> BotChatPayload(user_contexts[h.user_id], h.model)]]
  /\ UNCHANGED <<program, relay_config, exchange, user_contexts, bot_data,
                 keyboard, console_vars, events, raced, picked>>

\* a variant of handle_message_finish that writes back the list it sent,
\* with the reply, instead of appending to the user's list as it is now (a
\* read-modify-write across the await); C9 tells it from the code
handle_message_finish_write_back(slot, answer) ==
  /\ program = "bot"
  /\ handlers[slot].pc = "waiting"
  /\ LET h == handlers[slot]
         response_data == send_to_api_result(h.model, answer)
         assistant_response == response_data.response
     IN /\ Allowed(answer, ReplyText(h.n), events < MaxEvents)
        /\ user_contexts' = Put(user_contexts, h.user_id,
             AppendReply(h.payload.messages, assistant_response))
        /\ events' = IF Nominal(answer, ReplyText(h.n)) THEN events ELSE events + 1
  /\ handlers' = [handlers EXCEPT ![slot] = IdleHandler]
  /\ UNCHANGED <<program, relay_config, exchange, bot_data, keyboard,
                 console_vars, raced, picked>>

\* handle_message from the relay's answer on: append the assistant's
\* message, keep the last 20; `answer` is one of the answers the request in
\* flight may get (AllAnswers, which is TurnAnswers with may_fail)
handle_message_finish(slot, answer) ==
  /\ program = "bot"
  /\ handlers[slot].pc = "waiting"
  /\ LET h == handlers[slot]
         response_data == send_to_api_result(h.model, answer)
         assistant_response == response_data.response
     IN /\ Allowed(answer, ReplyText(h.n), events < MaxEvents)
        /\ user_contexts' = Put(user_contexts, h.user_id,
             AppendReply(user_contexts[h.user_id], assistant_response))
        /\ events' = IF Nominal(answer, ReplyText(h.n)) THEN events ELSE events + 1
  /\ handlers' = [handlers EXCEPT ![slot] = IdleHandler]
  /\ UNCHANGED <<program, relay_config, exchange, bot_data, keyboard,
                 console_vars, raced, picked>>

\* every answer the turn of a request in flight may get
AllAnswers(request) ==
  IF request.pc = "waiting"
  THEN RelayAnswers(request.payload, ReplyText(request.n)) \cup {Unreachable}
  ELSE {}

BotNext ==
  \/ \E u \in Users : start(u)
  \/ \E u \in Users : clear_context(u)
  \/ select_model
  \/ \E u \in Users : \E button \in Buttons(keyboard) : model_callback(u, button)
  \/ \E slot \in Slots : \E u \in Users : handle_message_begin(slot, u)
  \/ \E slot \in Slots : handle_message_send(slot)
  \/ \E slot \in Slots :
       \E answer \in AllAnswers(handlers[slot]) :
         handle_message_finish(slot, answer)

InitTurns == {0, MaxInitTurns}

InitBot ==
  /\ program = "bot"
  /\ \E k \in InitTurns :
       user_contexts = IF k = 0 THEN EmptyDict ELSE [u \in {"u1"} |-> History(k)]
  /\ bot_data = EmptyDict
  /\ handlers = [slot \in Slots |-> IdleHandler]
  /\ keyboard \in {<<>>, Keyboard(SubSeq(CATALOG_POOL, 1, MaxCatalog))}
  /\ raced = {}
  /\ picked = EmptyDict
  /\ message_history = <<>>
  /\ current_model = DEFAULT_MODEL
  /\ console = [pc |-> "off"]
  /\ events = 0
  /\ exchange = NoExchange
  /\ api_key = TRUE
  /\ api_method = "direct"

---------------------------------------------------------------------------
(* The terminal client: src/terminal_client.py                             *)

EXIT == <<"/", "e", "x", "i", "t">>
HELP == <<"/", "h", "e", "l", "p">>
CLEAR == <<"/", "c", "l", "e", "a", "r">>
MODELS == <<"/", "m", "o", "d", "e", "l", "s">>
MODEL_ == <<"/", "m", "o", "d", "e", "l", " ">>

UPPER == <<"A", "B", "C", "D", "E", "F", "G", "H", "I", "J", "K", "L", "M",
           "N", "O", "P", "Q", "R", "S", "T", "U", "V", "W", "X", "Y", "Z">>
LOWER == <<"a", "b", "c", "d", "e", "f", "g", "h", "i", "j", "k", "l", "m",
           "n", "o", "p", "q", "r", "s", "t", "u", "v", "w", "x", "y", "z">>

\* str.lower()
LowerChar(c) ==
  IF \E i \in DOMAIN UPPER : UPPER[i] = c
  THEN LOWER[CHOOSE i \in DOMAIN UPPER : UPPER[i] = c] ELSE c
Lower(str) == [i \in DOMAIN str |-> LowerChar(str[i])]

\* str.strip()
RECURSIVE LStrip(_)
LStrip(str) == IF str # <<>> /\ Head(str) = " " THEN LStrip(Tail(str)) ELSE str
RECURSIVE RStrip(_)
RStrip(str) ==
  IF str # <<>> /\ str[Len(str)] = " "
  THEN RStrip(SubSeq(str, 1, Len(str) - 1)) ELSE str
Strip(str) == RStrip(LStrip(str))

\* a variant of StartsWith that asks for the whole string (== in place of
\* startswith); C17 tells it from the code
StartsWith_equal(str, prefix) == str = prefix

\* str.startswith(prefix)
StartsWith(str, prefix) ==
  Len(str) >= Len(prefix) /\ SubSeq(str, 1, Len(prefix)) = prefix

\* the lines a user may type when text number n is due
ConsoleLines(n) ==
  {EXIT, HELP, CLEAR, <<" ", "/", "C", "l", "e", "a", "r", " ">>, MODELS,
   MODEL_ \o <<"b">>, <<"/", "M", "o", "d", "e", "l", " ", " ", "q", ":", "f">>,
   MODEL_, <<"/", "m", "o", "d", "e", "l">>, <<"/", "f", "o", "o">>,
   UserText(n)}

\* The loop runs in the main task of asyncio.run(main()).  Ctrl-C while the
\* task waits at an await never reaches "except KeyboardInterrupt": either
\* the task is cancelled (CancelledError is no Exception) or the
\* KeyboardInterrupt is raised in the event loop, outside the coroutine; the
\* program ends.  Ctrl-C while input() blocks is either raised in input()
\* and caught at line 170, or (asyncio's own SIGINT handler, Python 3.11 on)
\* only marks the task for cancellation, which then strikes at its next
\* await.
Cancelling == "cancelling" \in DOMAIN console

console_interrupt ==
  /\ program = "console"
  /\ console.pc \in {"prompt", "waiting"}
  /\ events < MaxEvents
  /\ events' = events + 1
  /\ IF console.pc = "waiting"
     THEN console' = [pc |-> "interrupted"]
     ELSE \/ console' = console
          \/ console' = [pc |-> "prompt", cancelling |-> TRUE]
  /\ UNCHANGED <<program, relay_config, exchange, bot_vars, message_history,
                 current_model>>

\* one pass of the loop of main() from input() to the next await or to the
\* next prompt
console_read(line) ==
  /\ program = "console"
  /\ console.pc = "prompt"
  /\ events < MaxEvents
  /\ events' = events + 1
  /\ LET user_input == Strip(line)
         command == Lower(user_input)
     IN IF command = EXIT
        THEN /\ console' = [pc |-> "exited"]
             /\ UNCHANGED <<message_history, current_model>>
        ELSE IF command = HELP
        THEN UNCHANGED <<message_history, current_model, console>>
        ELSE IF command = MODELS
        THEN /\ console' = IF Cancelling THEN [pc |-> "interrupted"] ELSE console
             /\ UNCHANGED <<message_history, current_model>>
        ELSE IF command = CLEAR
        THEN /\ message_history' = <<>>
             /\ UNCHANGED <<current_model, console>>
        ELSE IF StartsWith(command, MODEL_)
        THEN LET new_model == Strip(SubSeq(user_input, 8, Len(user_input)))
             IN /\ current_model' = IF new_model # <<>> THEN new_model
                                    ELSE current_model
                /\ UNCHANGED <<message_history, console>>
        ELSE LET appended == Append(message_history, Message("user", user_input))
             IN /\ message_history' = appended
                /\ console' =
                     IF Cancelling THEN [pc |-> "interrupted"]
                     ELSE [pc |-> "waiting", n |-> NextText,
                           payload |-> ChatPayload(appended, current_model)]
                /\ UNCHANGED current_model
  /\ UNCHANGED <<program, relay_config, exchange, bot_vars>>

\* main() from the relay's answer to the next prompt: append the
\* assistant's message, keep the last 20
console_answer(answer) ==
  /\ program = "console"
  /\ console.pc = "waiting"
  /\ Allowed(answer, ReplyText(console.n), events < MaxEvents)
  /\ LET response_data == send_to_api_result(current_model, answer)
         assistant_response == response_data.response
     IN message_history' = AppendReply(message_history, assistant_response)
  /\ events' = IF Nominal(answer, ReplyText(console.n)) THEN events
               ELSE events + 1
  /\ console' = [pc |-> "prompt"]
  /\ UNCHANGED <<program, relay_config, exchange, bot_vars, current_model>>

ConsoleNext ==
  \/ \E line \in ConsoleLines(NextText) : console_read(line)
  \/ \E answer \in AllAnswers(console) : console_answer(answer)
  \/ console_interrupt

\* --model, by default DEFAULT_MODEL
InitConsole ==
  /\ program = "console"
  /\ message_history \in {History(k) : k \in InitTurns}
  /\ current_model \in {DEFAULT_MODEL, <<"a">>}
  /\ console = [pc |-> "prompt"]
  /\ user_contexts = EmptyDict
  /\ bot_data = EmptyDict
  /\ handlers = [slot \in Slots |-> IdleHandler]
  /\ keyboard = <<>>
  /\ raced = {}
  /\ picked = EmptyDict
  /\ events = 0
  /\ exchange = NoExchange
  /\ api_key = TRUE
  /\ api_method = "direct"

---------------------------------------------------------------------------
(* The relay as a process: one request at a time, each handled whole       *)

\* the bodies posted to /api/chat
ChatBodies ==
  LET hi == Message("user", <<"h", "i">>)
      hello == Message("assistant", <<"h", "e", "l", "l", "o">>)
  IN {[messages |-> msgs] : msgs \in {<<>>, <<hi>>, <<hi, hello, hi>>}}
     \cup {ChatPayload(msgs, m) : msgs \in {<<hi>>, <<hi, hello, hi>>}, m \in ModelIds}
     \cup {BotChatPayload(<<hi>>, m) : m \in ModelIds}

\* POST /api/chat
relay_chat(body, up) ==
  /\ program = "relay"
  /\ LET req == ParseChatRequest(body)
     IN exchange' = Exchange("chat", req, up,
                             chat_endpoint(api_key, api_method, req, up))
  /\ UNCHANGED <<program, relay_config, bot_vars, console_vars, events>>

\* GET /api/models
relay_models(up) ==
  /\ program = "relay"
  /\ exchange' = Exchange("models", <<>>, up,
                          list_models(api_key, api_method, up))
  /\ UNCHANGED <<program, relay_config, bot_vars, console_vars, events>>

RelayNext ==
  \/ \E body \in ChatBodies :
       \E up \in NominalReplies(<<"h", "e", "l", "l", "o">>, {<<"x">>})
                   \cup FaultyReplies(<<"h", "e", "l", "l", "o">>, <<"x">>) :
         relay_chat(body, up)
  \/ \E up \in CatalogReplies : relay_models(up)

InitRelay ==
  /\ program = "relay"
  /\ api_key \in BOOLEAN
  /\ api_method \in {"direct", "openai"}
  /\ exchange = NoExchange
  /\ user_contexts = EmptyDict
  /\ bot_data = EmptyDict
  /\ handlers = [slot \in Slots |-> IdleHandler]
  /\ keyboard = <<>>
  /\ raced = {}
  /\ picked = EmptyDict
  /\ message_history = <<>>
  /\ current_model = DEFAULT_MODEL
  /\ console = [pc |-> "off"]
  /\ events = 0

---------------------------------------------------------------------------
(* The specification *)

Init == InitBot \/ InitConsole \/ InitRelay
Next == BotNext \/ ConsoleNext \/ RelayNext
Spec == Init /\ [][Next]_vars

\* The model picker of the bot on its own, with longer catalogs: /model and
\* presses of the buttons shown
InitPicker == InitBot /\ user_contexts = EmptyDict /\ keyboard = <<>>
PickerNext ==
  \/ select_model_from(PickerCatalogReplies)
  \/ \E u \in Users : \E button \in Buttons(keyboard) : model_callback(u, button)
SpecPicker == InitPicker /\ [][PickerNext]_vars

---------------------------------------------------------------------------
(* Claims *)

Buffers ==
  {user_contexts[u] : u \in DOMAIN user_contexts} \cup {message_history}

\* C1: in both front-ends a conversation buffer never holds more than 20
\* messages, in any state: after the user's message is appended, after the
\* reply is appended and cut, after a clear.
C1_BufferNeverOver20 == \A buffer \in Buffers : Len(buffer) <= MAX_CONTEXT

\* a step appends one message to `old` and keeps the most recent 20
AppendsKeeping20(old, new) ==
  /\ Len(new) = (IF Len(old) + 1 <= MAX_CONTEXT THEN Len(old) + 1 ELSE MAX_CONTEXT)
  /\ new # <<>>
  /\ new = LastN(Append(old, new[Len(new)]), MAX_CONTEXT)

\* C2: every append to a buffer leaves min(previous length + 1, 20)
\* messages, the most recent ones in arrival order.  Stated of every step
\* of the terminal client that appends (a step that changes the buffer and
\* does not empty it).
C2_AppendLeavesMostRecent20 ==
  [][(program = "console" /\ message_history' # message_history
        /\ message_history' # <<>>)
       => AppendsKeeping20(message_history, message_history')]_vars

\* the answers of a turn that failed in transport: the relay was not
\* reached, or it answered with a status other than 200
TransportFailed(answer) == ~answer.reached \/ answer.resp.status # 200

\* C3: when a turn fails in transport, what the front-end does about the
\* failure leaves the buffer and the model selection as they were.
C3_FailureLeavesStateAsItWas ==
  [][/\ \A slot \in Slots : \A answer \in AllAnswers(handlers[slot]) :
          (TransportFailed(answer) /\ handle_message_finish(slot, answer))
            => (user_contexts' = user_contexts /\ bot_data' = bot_data)
     /\ \A answer \in AllAnswers(console) :
          (TransportFailed(answer) /\ console_answer(answer))
            => (message_history' = message_history
                  /\ current_model' = current_model)]_vars

\* the model a user's next turn is to send: the one whose button the user
\* pressed last, or the default
ModelChosen(u) == IF u \in DOMAIN picked THEN picked[u] ELSE DEFAULT_MODEL

\* C4: a turn that begins after a user picked model m sends exactly m, and
\* the default model when the user never picked.
C4_TurnSendsThePickedModel ==
  [][\A slot \in Slots : \A u \in Users :
       handle_message_begin(slot, u) => handlers'[slot].model = ModelChosen(u)]_vars

\* the relay's answer to the request of `exchange`, had the key been missing
WithoutKey(x) ==
  IF x.endpoint = "chat"
  THEN chat_endpoint(FALSE, api_method, x.request, x.up)
  ELSE list_models(FALSE, api_method, x.up)

\* C5: a request that fails because the upstream call failed gets another
\* status than the same request gets when the credential is missing.
C5_StatusTellsTheCause ==
  (program = "relay" /\ exchange.endpoint # "none" /\ api_key
     /\ exchange.up.kind # "ok" /\ exchange.status # 200)
    => exchange.status # WithoutKey(exchange).status

\* a response that reports the missing key: status 500 with the detail of
\* the key check, as it is or as str() of the exception carrying it
ConfigurationError(x) ==
  /\ x.status = 500
  /\ x.json.detail \in {KEY_NOT_CONFIGURED,
                        ExcStr(HTTPException(500, KEY_NOT_CONFIGURED))}

\* C6: with no key configured every request of the relay, chat or models,
\* direct or through the client, ends in a configuration error and makes no
\* outbound call.
C6_NoKeyNoCall ==
  (program = "relay" /\ ~api_key /\ exchange.endpoint # "none")
    => (ConfigurationError(exchange) /\ exchange.outbound = <<>>)

C6_Witness ==
  /\ program = "relay" /\ ~api_key /\ api_method = "openai"
  /\ exchange.endpoint = "chat" /\ exchange.up.kind = "ok"
  /\ ConfigurationError(exchange) /\ exchange.outbound = <<>>

OtherMethod == IF api_method = "openai" THEN "direct" ELSE "openai"

\* the same {response, model}, or a failure on both sides
SameOutcome(x, y) ==
  IF x.status = 200 THEN y.status = 200 /\ y.json = x.json ELSE y.status # 200

\* C7: for every chat input and every reply of the upstream, the chat
\* endpoint returns under one calling convention what it returns under the
\* other.
C7_ConventionsAgree ==
  (program = "relay" /\ exchange.endpoint = "chat")
    => SameOutcome(exchange,
                   chat_endpoint(api_key, OtherMethod, exchange.request, exchange.up))

\* no chat handler of the bot is in flight
AllIdle == \A slot \in Slots : ~Busy(slot)

\* the turn of this user text is over: no handler in flight has it
Finished(content) ==
  \A slot \in Slots : Busy(slot) => handlers[slot].user_message # content

\* the upstream's reply to the request made for a user text
ReplyOf(content) == <<"r", content[2]>>
AnyReply == {ReplyText(n) : n \in DOMAIN Digit}

\* a user message of a finished turn is the last of the buffer, or is
\* followed by another user message or by the reply to another text
OrderCorrupted(u) ==
  /\ u \in DOMAIN user_contexts
  /\ LET buffer == user_contexts[u]
     IN \E i \in DOMAIN buffer :
          /\ buffer[i].role = "user"
          /\ Finished(buffer[i].content)
          /\ \/ i = Len(buffer)
             \/ buffer[i + 1].role = "user"
             \/ /\ buffer[i + 1].content \in AnyReply
                /\ buffer[i + 1].content # ReplyOf(buffer[i].content)

KeepsAll(old, new) ==
  \/ new = old
  \/ /\ new # <<>>
     /\ LET extended == Append(old, new[Len(new)])
        IN \/ new = extended
           \/ Len(extended) > MAX_CONTEXT /\ new = LastN(extended, MAX_CONTEXT)

BufferOf(contexts, u) == IF u \in DOMAIN contexts THEN contexts[u] ELSE <<>>

Forwarded(payload) ==
  {chat_endpoint(TRUE, method, ParseChatRequest(payload), up).outbound :
     method \in {"direct", "openai"},
     up \in {NetError, HttpError, Ok(FullBody(<<"r">>, payload.model))}}

CarriesExactly(payload, buffer) ==
  /\ payload.messages = buffer
  /\ \A outbound \in Forwarded(payload) :
       /\ outbound # <<>>
       /\ \A i \in DOMAIN outbound : outbound[i].messages = buffer

\* C10: the request a front-end builds from a buffer of K messages carries
\* exactly these K messages, in order, role and content unchanged, and so
\* does the payload the relay forwards upstream for it.
C10_RequestCarriesTheBuffer ==
  [][/\ \A slot \in Slots :
          handle_message_send(slot)
            => CarriesExactly(handlers'[slot].payload,
                              user_contexts[handlers[slot].user_id])
     /\ (program = "console" /\ console.pc = "prompt" /\ console'.pc = "waiting")
          => CarriesExactly(console'.payload, message_history')]_vars

\* a request of 21 messages is in flight
C10_Witness ==
  \E slot \in Slots :
    /\ handlers[slot].pc = "waiting"
    /\ Len(handlers[slot].payload.messages) = MAX_CONTEXT + 1
    /\ \A outbound \in Forwarded(handlers[slot].payload) :
         Len(outbound[1].messages) = MAX_CONTEXT + 1

\* `new` is `old` without its last message, then the user message and the
\* reply, less the oldest messages beyond 20
TurnAdded(old, new, user_message, content) ==
  new = LastN(SubSeq(old, 1, Len(old) - 1)
                \o <<Message("user", user_message), Message("assistant", content)>>,
              MAX_CONTEXT)

\* the user message a turn appended is still the last of the buffer: nothing
\* came between
RanAlone(buffer, user_message) ==
  buffer # <<>> /\ buffer[Len(buffer)] = Message("user", user_message)

\* C11: a chat turn answered in good order and run alone leaves the buffer
\* extended by the user message and an assistant message with the
\* upstream's content (less the oldest beyond 20), in both front-ends; and
\* the relay, given a key, answers an upstream reply of content c and model
\* m with {response: c, model: m}.
C11_TurnAddsUserThenReply ==
  [][/\ \A slot \in Slots : \A u \in Users :
          handle_message_begin(slot, u)
            => user_contexts'[u] =
                 Append(BufferOf(user_contexts, u),
                        Message("user", handlers'[slot].user_message))
     /\ \A slot \in Slots :
          LET h == handlers[slot]
          IN (/\ h.pc = "waiting"
              /\ RanAlone(user_contexts[h.user_id], h.user_message)
              /\ \E answer \in AllAnswers(h) :
                   /\ Nominal(answer, ReplyText(h.n))
                   /\ handle_message_finish(slot, answer))
               => TurnAdded(user_contexts[h.user_id], user_contexts'[h.user_id],
                            h.user_message, ReplyText(h.n))
     /\ \A answer \in AllAnswers(console) :
          (console_answer(answer) /\ Nominal(answer, ReplyText(console.n)))
            => TurnAdded(message_history, message_history',
                         message_history[Len(message_history)].content,
                         ReplyText(console.n))
     /\ \A c \in {<<"h", "e", "l", "l", "o">>} : \A m \in {<<"x">>} :
          (/\ program = "relay" /\ api_key
           /\ exchange'.endpoint = "chat"
           /\ exchange'.up = Ok(FullBody(c, m)))
            => (exchange'.status = 200
                  /\ exchange'.json = [response |-> c, model |-> m])]_vars

\* from an empty buffer, one turn run alone: the buffer is the user text and
\* the reply to it
C11_Witness ==
  /\ program = "bot" /\ AllIdle
  /\ \E u \in DOMAIN user_contexts \ raced : \E n \in DOMAIN Digit :
       user_contexts[u] = <<Message("user", UserText(n)),
                            Message("assistant", ReplyText(n))>>

\* the commands of the console, as a user means them: the line, stripped
\* and lower-cased, is one of the four words, or "/model " and an identifier
IsWord(line, word) == Lower(Strip(line)) = word
ModelArgument(line) == Strip(SubSeq(Strip(line), 8, Len(Strip(line))))
IsModelCommand(line) ==
  /\ Len(Strip(line)) > 7
  /\ SubSeq(Lower(Strip(line)), 1, 7) = MODEL_
  /\ ModelArgument(line) # <<>>
IsCommand(line) ==
  \/ \E word \in {EXIT, HELP, CLEAR, MODELS} : IsWord(line, word)
  \/ IsModelCommand(line)

\* a line that begins like a command and is none
Malformed(line) ==
  Strip(line) # <<>> /\ Head(Strip(line)) = "/" /\ ~IsCommand(line)

\* C12: a line of the console that begins like a command but is malformed
\* ("/model" with no identifier, an unknown "/word") is not appended to the
\* buffer and is not sent to the relay.
C12_MalformedCommandStaysLocal ==
  [][\A line \in ConsoleLines(NextText) :
       (console_read(line) /\ Malformed(line))
         => (message_history' = message_history /\ console'.pc # "waiting")]_vars

\* `new` is `old` less some of its oldest messages, then new messages: what
\* is kept of `old` is kept in place, in order and unaltered; messages are
\* dropped only when the buffer is at 20 afterwards, and never all of them
AppendOrEvict(old, new) ==
  \E dropped \in 0..Len(old) :
    /\ Len(new) >= Len(old) - dropped
    /\ \A i \in 1..(Len(old) - dropped) : new[i] = old[dropped + i]
    /\ dropped > 0 => (Len(new) = MAX_CONTEXT /\ dropped < Len(old))

\* C13: every change of a buffer that does not empty it (a clear) is an
\* append at the end, a removal of the oldest entries, or both; no step
\* reorders, inserts in the middle or alters a message, in the console and
\* in the bot under any interleaving of handlers.
C13_ChangesAppendOrEvict ==
  [][/\ \A u \in Users :
          (BufferOf(user_contexts', u) # BufferOf(user_contexts, u)
             /\ BufferOf(user_contexts', u) # <<>>)
            => AppendOrEvict(BufferOf(user_contexts, u), BufferOf(user_contexts', u))
     /\ (message_history' # message_history /\ message_history' # <<>>)
          => AppendOrEvict(message_history, message_history')]_vars

\* the eviction has acted: a full buffer that ends with the reply of a turn
\* made after the history began, and whose oldest messages are gone
C13_Witness ==
  \E buffer \in Buffers :
    /\ Len(buffer) = MAX_CONTEXT
    /\ buffer[MAX_CONTEXT] \in
         {Message("assistant", ReplyText(n)) : n \in (MaxInitTurns + 1)..Len(Digit)}
    /\ buffer[1] # History(MaxInitTurns)[1]

\* C14: a clear is possible for every identity, with a buffer or without,
\* with a chat turn in flight or not, and when it is done the identity's
\* buffer is empty; so is the console's after /clear.
C14_ClearLeavesEmpty ==
  [][/\ \A u \in Users :
          (program = "bot" /\ events < MaxEvents) => ENABLED clear_context(u)
     /\ \A u \in Users :
          clear_context(u)
            => (u \in DOMAIN user_contexts' /\ user_contexts'[u] = <<>>)
     /\ \A line \in ConsoleLines(NextText) :
          (console_read(line) /\ IsWord(line, CLEAR))
            => (message_history' = <<>> /\ console'.pc = "prompt")]_vars

\* a buffer emptied while a chat turn of its user is in flight
C14_Witness ==
  /\ program = "bot"
  /\ \E slot \in Slots :
       /\ Busy(slot)
       /\ handlers[slot].user_id \in DOMAIN user_contexts
       /\ user_contexts[handlers[slot].user_id] = <<>>

\* C15: the lookup at the head of a chat turn never fails: the turn can
\* begin for every identity; for one without a buffer the buffer is made
\* empty before the append, so it then holds the user message alone; for
\* one with a buffer the messages it held are all still there, unchanged.
C15_LookupCreatesOnMiss ==
  [][/\ \A u \in Users :
          (program = "bot" /\ events < MaxEvents /\ ~Busy(1))
            => ENABLED handle_message_begin(1, u)
     /\ \A slot \in Slots : \A u \in Users :
          handle_message_begin(slot, u)
            => /\ u \in DOMAIN user_contexts'
               /\ IF u \in DOMAIN user_contexts
                  THEN /\ Len(user_contexts'[u]) = Len(user_contexts[u]) + 1
                       /\ SubSeq(user_contexts'[u], 1, Len(user_contexts[u]))
                            = user_contexts[u]
                  ELSE user_contexts'[u] =
                         <<Message("user", handlers'[slot].user_message)>>]_vars

\* the first event of the bot was a text of a user it had no buffer for
C15_Witness ==
  /\ program = "bot" /\ events = 1
  /\ "u2" \in DOMAIN user_contexts
  /\ Len(user_contexts["u2"]) = 1
  /\ Busy(1) /\ handlers[1].user_id = "u2"

\* C16: a request to the chat endpoint makes at most one call to the
\* upstream, and exactly one when the key is configured; a call that failed
\* is not made again, under either calling convention.
C16_OneOutboundCall ==
  (program = "relay" /\ exchange.endpoint = "chat")
    => /\ Len(exchange.outbound) <= 1
       /\ api_key => Len(exchange.outbound) = 1

\* C17: in the console /help, /models and /model <id> leave the buffer as
\* it is and send nothing; /clear leaves the current model as it is;
\* /model <id> sets the current model to <id> and /help, /models leave it;
\* a line is appended to the buffer and sent exactly when it is no command.
C17_ConsoleCommandsFrame ==
  [][\A line \in ConsoleLines(NextText) :
       console_read(line)
         => /\ (IsWord(line, HELP) \/ IsWord(line, MODELS) \/ IsModelCommand(line))
                 => (message_history' = message_history /\ console'.pc # "waiting")
            /\ (IsWord(line, HELP) \/ IsWord(line, MODELS) \/ IsWord(line, CLEAR))
                 => current_model' = current_model
            /\ IsWord(line, CLEAR) => console'.pc = "prompt"
            /\ IsModelCommand(line) => current_model' = ModelArgument(line)
            /\ IsCommand(line)
                 => (console'.pc # "waiting"
                       /\ message_history' \in {message_history, <<>>})
            /\ ~IsCommand(line)
                 => /\ message_history' =
                         Append(message_history, Message("user", Strip(line)))
                    /\ current_model' = current_model
                    /\ ~Cancelling
                         => /\ console'.pc = "waiting"
                            /\ console'.payload.messages = message_history']_vars

\* /model b has been entered: the model is b, the buffer is the history the
\* console began with, nothing is in flight
C17_Witness ==
  /\ program = "console" /\ console.pc = "prompt"
  /\ current_model = <<"b">>
  /\ message_history = History(MaxInitTurns)

\* the loop of the console has ended
Ended(c) == c.pc \in {"exited", "interrupted"}

\* C18: an interruption of the console, while it reads input or while it
\* waits for the relay, leaves the loop at the prompt; the loop ends only
\* when /exit is entered.
C18_InterruptionKeepsTheLoop ==
  [][/\ console_interrupt => console'.pc = "prompt"
     /\ (program = "console" /\ ~Ended(console) /\ Ended(console'))
          => \E line \in ConsoleLines(NextText) :
               console_read(line) /\ IsWord(line, EXIT)]_vars

\* the buttons of a keyboard, row after row
RECURSIVE Flatten(_)
Flatten(kb) == IF kb = <<>> THEN <<>> ELSE Head(kb) \o Flatten(Tail(kb))

\* the picker shows the models of this catalog, one button each, in order
ShowsCatalog(kb, models) ==
  /\ Len(Flatten(kb)) = Len(models)
  /\ \A i \in DOMAIN models :
       Flatten(kb)[i].callback_data =
         CallbackData(IF "id" \in DOMAIN models[i] THEN models[i].id ELSE <<>>)

\* C19: the picker shown for a non-empty catalog has one button for each
\* model of the catalog, in catalog order, two buttons in every row but the
\* last, one or two in the last, and no empty row.
C19_TwoButtonsPerRow ==
  (program = "bot" /\ keyboard # <<>>)
    => /\ \E k \in 1..Len(CATALOG_POOL) :
            ShowsCatalog(keyboard, SubSeq(CATALOG_POOL, 1, k))
       /\ \A r \in 1..(Len(keyboard) - 1) : Len(keyboard[r]) = 2
       /\ Len(keyboard[Len(keyboard)]) \in {1, 2}

\* a catalog of five: three rows, one button in the last
C19_Witness ==
  /\ program = "bot"
  /\ Len(keyboard) = 3 /\ Len(keyboard[3]) = 1
  /\ ShowsCatalog(keyboard, SubSeq(CATALOG_POOL, 1, 5))

\* the step is one of an operation performed for identity a
OperationOf(a) ==
  \/ start(a)
  \/ clear_context(a)
  \/ \E button \in Buttons(keyboard) : model_callback(a, button)
  \/ \E slot \in Slots : handle_message_begin(slot, a)
  \/ \E slot \in Slots :
       /\ Busy(slot) /\ handlers[slot].user_id = a
       /\ \/ handle_message_send(slot)
          \/ \E answer \in AllAnswers(handlers[slot]) :
               handle_message_finish(slot, answer)

\* identity b has the same entry, or none, in the mapping before and after
SameEntry(before, after, b) ==
  /\ (b \in DOMAIN before) = (b \in DOMAIN after)
  /\ b \in DOMAIN before => after[b] = before[b]

\* C20: in the bot a step of an operation for identity A (chat turn, /start,
\* /clear, model selection) leaves the buffer and the model selection of
\* every other identity B as they were, under any interleaving.
C20_OtherIdentitiesUntouched ==
  [][\A b \in Users :
       \/ /\ SameEntry(user_contexts, user_contexts', b)
          /\ SameEntry(bot_data, bot_data', b)
       \/ \A a \in Users \ {b} : ~OperationOf(a)]_vars

\* u2 picked a model and completed a turn; u1's buffer is the history it
\* began with and u1 has no selection
C20_Witness ==
  /\ program = "bot" /\ AllIdle
  /\ DOMAIN user_contexts = {"u1", "u2"}
  /\ user_contexts["u1"] = History(MaxInitTurns)
  /\ Len(user_contexts["u2"]) = 2
  /\ DOMAIN bot_data = {"u2"}

\* user, assistant, user, assistant, ...: even length, a user message at
\* every odd place and an assistant message at every even place
Alternates(buffer) ==
  /\ Len(buffer) % 2 = 0
  /\ \A i \in DOMAIN buffer :
       buffer[i].role = (IF i % 2 = 1 THEN "user" ELSE "assistant")

OpenTurn(buffer, user_message) ==
  /\ buffer # <<>>
  /\ buffer[Len(buffer)] = Message("user", user_message)
  /\ Alternates(SubSeq(buffer, 1, Len(buffer) - 1))

\* no chat turn of identity u is in flight in `hs`
BetweenTurns(hs, u) ==
  \A slot \in Slots : hs[slot].pc # "idle" => hs[slot].user_id # u

StoredModel(data, u) ==
  IF u \in DOMAIN data /\ "model" \in DOMAIN data[u] THEN data[u].model
  ELSE DEFAULT_MODEL

\* C22: in the bot /start and /clear empty the identity's buffer and leave
\* every stored model selection as it was; a model selection leaves every
\* buffer as it was; the stored selection of an identity changes by no step
\* but a model selection of that identity; and a chat turn sends the stored
\* selection.  So the selection stored before a /clear or /start is the
\* model the next turn sends.
C22_ResetKeepsModelSelectionKeepsBuffer ==
  [][\A u \in Users :
       /\ (start(u) \/ clear_context(u))
            => /\ bot_data' = bot_data
               /\ user_contexts'[u] = <<>>
               /\ StoredModel(bot_data', u) = StoredModel(bot_data, u)
       /\ \A button \in Buttons(keyboard) :
            model_callback(u, button) => user_contexts' = user_contexts
       /\ \/ SameEntry(bot_data, bot_data', u)
          \/ \E button \in Buttons(keyboard) : model_callback(u, button)
       /\ \A slot \in Slots :
            handle_message_begin(slot, u)
              => handlers'[slot].model = StoredModel(bot_data, u)]_vars

\* an identity with a stored selection other than the default has an empty
\* buffer, which only /start or /clear leaves, and its next chat turn can
\* still begin
C22_Witness ==
  \E u \in DOMAIN user_contexts \cap DOMAIN bot_data :
    /\ user_contexts[u] = <<>>
    /\ StoredModel(bot_data, u) # DEFAULT_MODEL
    /\ events < MaxEvents
    /\ \E slot \in Slots : ~Busy(slot)

===========================================================================
